---- MODULE Spec2Model ----
(***************************************************************************)
(* octodns-lexicon: LexiconProvider.populate and LexiconProvider._apply    *)
(* acting on one (name, type) group of a lexicon provider, together with   *)
(* the RememberedIds store that links the two.                             *)
(*                                                                         *)
(* Strings are sequences of one-character strings, so that escaping,       *)
(* comparison and sorting are computed the way Python computes them.       *)
(* The group of a session (Spec) is a TXT rrset: populate decodes it with   *)
(* _data_for_multiple and _apply encodes it with _rrset_for_multiple.      *)
(*                                                                         *)
(* Four units are specified apart from the session, each with its own      *)
(* variables while the others rest: RememberedIds among threads (SpecLock),*)
(* the codec of every type (SpecCodec), the zone-relative name (SpecName)  *)
(* and populate over a listing of several groups (SpecListing).            *)
(***************************************************************************)
EXTENDS Integers, Sequences, FiniteSets, TLC

\* ------------------------------------------------------------------ bounds

\* Largest number of flat records the provider lists for the group, and
\* largest number of values of the desired record.
MaxValues == 3

\* Largest number of distinct identifiers the provider hands out in a listing.
MaxId == 3

\* Largest number of populate calls of one session.
MaxPopulate == 2

\* --------------------------------------------------------------- constants

\* RememberedIds.get returns None when nothing is remembered.
None == 0

\* OnTheFlyLexiconConfigSource's default ttl.
DefaultTtl == 3600

RType == "TXT"

Fqdn == "txt.example.com."

Ttls == {300, 600}

\* Contents the provider may list for the group (raw, as the provider
\* stores them): a, b, c and a;b
RawContents == { <<"a">>, <<"b">>, <<"c">>, <<"a", ";", "b">> }

\* ----------------------------------------------------------------- strings

\* Code point of a character (Python compares str by code point).
Ord(ch) ==
  CASE ch = ";"  -> 59
    [] ch = "\\" -> 92
    [] ch = "a"  -> 97
    [] ch = "b"  -> 98
    [] ch = "c"  -> 99

RECURSIVE StrLess(_, _)
\* s < t for Python str.
StrLess(s, t) ==
  IF t = <<>> THEN FALSE
  ELSE IF s = <<>> THEN TRUE
  ELSE IF Head(s) = Head(t) THEN StrLess(Tail(s), Tail(t))
  ELSE Ord(Head(s)) < Ord(Head(t))

RECURSIVE ReSubSemicolon(_)
\* re.sub(';', '\;', s): every ; becomes backslash, ;
ReSubSemicolon(s) ==
  IF s = <<>> THEN <<>>
  ELSE (IF Head(s) = ";" THEN <<"\\", ";">> ELSE <<Head(s)>>)
         \o ReSubSemicolon(Tail(s))

\* --------------------------------------------------------- octodns records

\* change.existing / change.new when there is no such record.
NoRecord == [present |-> FALSE, ttl |-> 0, values |-> {}]

\* Record.new(zone, name, data): the record of the group, its values a set.
RecordNew(data) ==
  [present |-> TRUE, ttl |-> data.ttl,
   values |-> {data.values[k] : k \in DOMAIN data.values}]

\* repr(record), the key of RememberedIds: octodns prints type, ttl, fqdn
\* and values; type and fqdn are those of the group.
Repr(record) == <<RType, record.ttl, Fqdn, record.values>>

\* ------------------------------------------------------------ LexiconRecord

\* namedtuple comparison: content first, then ttl (rtype and name are those
\* of the one record a change is about).
RecLess(r, s) ==
  \/ StrLess(r.content, s.content)
  \/ r.content = s.content /\ r.ttl < s.ttl

RECURSIVE Sorted(_)
\* sorted(S) of a set of LexiconRecords.
Sorted(S) ==
  IF S = {} THEN <<>>
  ELSE LET m == CHOOSE r \in S : \A s \in S \ {r} : RecLess(r, s)
       IN  <<m>> \o Sorted(S \ {m})

\* LexiconRecord.func_args: ttl is no argument of the provider functions.
func_args(r) == [content |-> r.content, rtype |-> r.rtype, name |-> r.name]

\* _rrset_for_multiple (TXT): one LexiconRecord per value, content verbatim.
rrset_for_multiple(octodns_record) ==
  {[content |-> c, ttl |-> octodns_record.ttl, rtype |-> RType, name |-> Fqdn]
     : c \in octodns_record.values}

\* _data_for_multiple (TXT): ttl of the first listed record, every content
\* with its semicolons escaped.
data_for_multiple(lexicon_records) ==
  [ttl |-> lexicon_records[1].ttl,
   values |-> [k \in DOMAIN lexicon_records |->
                 ReSubSemicolon(lexicon_records[k].content)]]

\* ------------------------------------------------------------ RememberedIds

\* RememberedIds.__init__: two empty defaultdicts.
EmptyIds == [id_by_record_and_value |-> <<>>, all_ids_for_record |-> <<>>]

\* d[k] of a defaultdict, read only.
DictGet(d, k, default) == IF k \in DOMAIN d THEN d[k] ELSE default

\* d with d[k] = v.
DictPut(d, k, v) == [x \in DOMAIN d \cup {k} |-> IF x = k THEN v ELSE d[x]]

\* RememberedIds.remember
remember(ids, record, content, id) ==
  LET key == Repr(record)
      by  == DictGet(ids.id_by_record_and_value, key, <<>>)
      all == DictGet(ids.all_ids_for_record, key, <<>>)
  IN  [id_by_record_and_value |->
         DictPut(ids.id_by_record_and_value, key, DictPut(by, content, id)),
       all_ids_for_record |->
         DictPut(ids.all_ids_for_record, key, Append(all, id))]

\* RememberedIds.get_all_ids
get_all_ids(ids, record) == DictGet(ids.all_ids_for_record, Repr(record), <<>>)

\* has_unique_ids that never finds a duplicate.
has_unique_ids_always(ids, record) == TRUE

\* RememberedIds.has_unique_ids: len(list) == len(set(list))
has_unique_ids(ids, record) ==
  LET all == get_all_ids(ids, record)
  IN  Len(all) = Cardinality({all[k] : k \in DOMAIN all})

\* get that answers with some identifier of the record on KeyError.
get_any(ids, record, content) ==
  LET by == DictGet(ids.id_by_record_and_value, Repr(record), <<>>)
  IN  IF content \in DOMAIN by THEN by[content] ELSE 1

\* RememberedIds.get: the id, or None on KeyError.
get(ids, record, content) ==
  LET by == DictGet(ids.id_by_record_and_value, Repr(record), <<>>)
  IN  IF content \in DOMAIN by THEN by[content] ELSE None

\* Python truth value of an identifier: None and 0 are false.
Truthy(identifier) == identifier # None

\* ------------------------------------------------------------------- state

VARIABLES
  provider,          \* the provider's flat records: [id, content, ttl]
  provider_before,   \* provider as it was when _apply was entered
  zone,              \* the record populate registered in the zone, or NoRecord
  exists,            \* what the last populate returned
  remembered_ids,    \* LexiconProvider.remembered_ids
  populated,         \* populate calls so far in this session
  lexicon_ttl,       \* OnTheFlyLexiconConfigSource.ttl
  pc,                \* position of _apply: idle, pair, pair_delete, create,
                     \* delete, done, raised
  change,            \* the change being applied: [existing, new]
  additions,         \* new_vars - old_vars
  deletions,         \* old_vars - new_vars
  additions_iter,    \* what iter(sorted(additions)) has left
  deletions_iter,    \* what iter(sorted(deletions)) has left
  i,                 \* the pair loop's counter
  new_record,        \* the pair loop's new_record
  old_record,        \* the pair loop's old_record
  identifier,        \* the identifier last looked up
  calls,             \* the provider calls issued, in order, with their results
  raised             \* the error _apply raised: [kind, record, identifier]

\* RememberedIds shared by threads.
VARIABLES
  lock,              \* RememberedIds.lock: the thread holding it, or Unlocked
  shared_ids,        \* the two defaultdicts of the shared RememberedIds
  w_pc,              \* per remembering thread: idle, by_value, append, release
  w_call,            \* per remembering thread: the remember call it is in
  w_left,            \* per remembering thread: remember calls still to make
  r_pc,              \* the looking-up thread: idle, got, done
  r_call,            \* its lookup: [record, content]
  r_id,              \* what its get returned
  r_all              \* the all-ids list its has_unique_ids looked at

lock_vars ==
  <<lock, shared_ids, w_pc, w_call, w_left, r_pc, r_call, r_id, r_all>>

\* The codec, encoding then decoding one octodns record.
VARIABLES
  encoded_record,    \* the octodns record handed to _rrset_for_<type>
  rrset,             \* the LexiconRecords _rrset_for_<type> returned
  data,              \* what _data_for_<type> returned for them
  codec_pc           \* start, encoded, decoded

codec_vars == <<encoded_record, rrset, data, codec_pc>>

\* populate over a listing of several groups.
VARIABLES
  listing,           \* what list_records(None, None, None) returned (dicts,
                     \* their content rewritten in place by harmonization)
  SUPPORTS,          \* LexiconProvider.SUPPORTS
  loaded_types,      \* the groups in iteration order: [name, type, records]
  group,             \* how many groups the second loop has been through
  zone_records,      \* zone.records in the order added: [name, type, ttl,
                     \* rdata]
  listing_ids,       \* LexiconProvider.remembered_ids
  listing_exists,    \* populate's local "exists"
  populate_pc,       \* start, groups, returned, raised
  populate_raised    \* the group number at which populate raised, or 0

listing_vars == <<listing, SUPPORTS, loaded_types, group, zone_records,
                  listing_ids, listing_exists, populate_pc, populate_raised>>

\* The zone-relative name of one group.
VARIABLES
  listed_name,       \* the name the provider listed (a key of loaded_types)
  record_by_name,    \* populate's loop variable for that name
  record_name,       \* the name handed to Record.new
  name_pc            \* start, stripped, named

name_vars == <<listed_name, record_by_name, record_name, name_pc>>

\* The variables of the units checked apart from the session.
unit_vars == <<lock_vars, codec_vars, listing_vars, name_vars>>

session_vars ==
  <<provider, provider_before, zone, exists, remembered_ids, populated,
    lexicon_ttl, pc,
    change, additions, deletions, additions_iter, deletions_iter, i,
    new_record, old_record, identifier, calls, raised>>

vars == <<session_vars, unit_vars>>

apply_locals == <<provider_before, change, additions, deletions, additions_iter,
                  deletions_iter, i, new_record, old_record, identifier>>

NoFlat == [content |-> <<>>, ttl |-> 0, rtype |-> RType, name |-> Fqdn]

NoError == [kind |-> "", record |-> NoFlat, identifier |-> None]

\* ---------------------------------------------------------------- provider

\* provider.list_records(None, None, None) for the group, as dicts with the
\* keys content, type, name, ttl, id.
list_records(p) ==
  LET s == Sorted(p)
  IN  [k \in DOMAIN s |->
         [id |-> s[k].id, content |-> s[k].content, ttl |-> s[k].ttl,
          type |-> RType, name |-> Fqdn]]

\* An identifier the provider has not handed out in this session.
FreshId(p) ==
  LET used == {e.id : e \in p} \cup (0..MaxId)
  IN  CHOOSE n \in 1..(MaxId + Cardinality(p) + 1) : n \notin used

\* provider.create_record succeeding: the content is there afterwards.
create_record(p, ttl, args) ==
  IF \E e \in p : e.content = args.content THEN p
  ELSE p \cup {[id |-> FreshId(p), content |-> args.content, ttl |-> ttl]}

\* provider.update_record succeeding: the identified record gets the content.
update_record(p, ttl, id, args) ==
  {IF e.id = id THEN [e EXCEPT !.content = args.content, !.ttl = ttl] ELSE e
     : e \in p}

\* provider.delete_record succeeding: without identifier every record with
\* the content goes, with one the identified record with the content goes.
delete_record(p, id, args) ==
  IF id = None THEN {e \in p : e.content # args.content}
  ELSE {e \in p : ~(e.id = id /\ e.content = args.content)}

\* The listings a provider may hold at the start of a session: at most
\* MaxValues contents, one ttl, identifiers 1..MaxId shared or not (up to
\* renaming: the k-th record's id is at most one more than the largest before).
InitialProviders ==
  UNION { UNION { { {[id |-> f[k], content |-> s[k].content, ttl |-> t]
                       : k \in DOMAIN s}
                    : f \in {g \in [DOMAIN s -> 1..MaxId] :
                               \A k \in DOMAIN s :
                                 g[k] <= 1 + Cardinality({g[j] :
                                                            j \in 1..(k-1)})} }
                  : s \in {Sorted({[content |-> c, ttl |-> t] : c \in C})
                             : C \in {D \in SUBSET RawContents :
                                        Cardinality(D) <= MaxValues}} }
          : t \in Ttls }

\* ---------------------------------------------------------------- populate

RECURSIVE RememberAll(_, _, _, _)
\* populate's loop: remember(record, content, id) for each listed record
RememberAll(ids, record, lexicon_records, k) ==
  IF k > Len(lexicon_records) THEN ids
  ELSE RememberAll(remember(ids, record, lexicon_records[k].content,
                            lexicon_records[k].id),
                   record, lexicon_records, k + 1)

\* LexiconProvider.populate for a zone holding the group (a TXT group is not
\* harmonized and is in SUPPORTS).
populate ==
  /\ pc = "idle"
  /\ populated < MaxPopulate
  /\ LET lexicon_records == list_records(provider)
     IN  IF lexicon_records = <<>>
         THEN /\ exists' = FALSE
              /\ zone' = NoRecord
              /\ UNCHANGED remembered_ids
         ELSE LET record == RecordNew(data_for_multiple(lexicon_records))
              IN  /\ exists' = TRUE
                  /\ remembered_ids' =
                       RememberAll(remembered_ids, record, lexicon_records, 1)
                  /\ zone' = record
  /\ populated' = populated + 1
  /\ UNCHANGED <<provider, lexicon_ttl, pc, calls, raised>>
  /\ UNCHANGED apply_locals
  /\ UNCHANGED unit_vars

\* ------------------------------------------------------------------ _apply

\* The record a plan holds as existing for the group: the provider's listing
\* decoded as populate decodes it.
Existing(p) ==
  IF p = {} THEN NoRecord
  ELSE RecordNew(data_for_multiple(list_records(p)))

\* Values a desired record may hold (octodns keeps semicolons escaped).
DesiredValues == {ReSubSemicolon(c) : c \in RawContents}

\* The desired records of a plan.
NewRecords ==
  {[present |-> TRUE, ttl |-> t, values |-> V]
     : t \in Ttls,
       V \in {W \in SUBSET DesiredValues :
                Cardinality(W) >= 1 /\ Cardinality(W) <= MaxValues}}

\* Additions with the difference forgotten.
AdditionsNoDifference(old_vars, new_vars) == new_vars

\* additions = new_vars - old_vars
Additions(old_vars, new_vars) == new_vars \ old_vars

\* deletions = old_vars - new_vars
Deletions(old_vars, new_vars) == old_vars \ new_vars

Min(a, b) == IF a < b THEN a ELSE b

\* Continue without the loop over what deletions_iter has left.
ContinueNoDeletes(n, adds, dels, a_iter, d_iter) ==
  IF n < Min(Cardinality(adds), Cardinality(dels)) THEN "pair"
  ELSE IF a_iter # <<>> THEN "create"
  ELSE "done"

\* Where _apply goes on after a provider call returned success: the pair
\* loop while i < min(len(additions), len(deletions)), then the loop over
\* what additions_iter has left, then the loop over what deletions_iter has
\* left, then the end of the change.
Continue(n, adds, dels, a_iter, d_iter) ==
  IF n < Min(Cardinality(adds), Cardinality(dels)) THEN "pair"
  ELSE IF a_iter # <<>> THEN "create"
  ELSE IF d_iter # <<>> THEN "delete"
  ELSE "done"

\* TouchById putting a fresh dict under the key.
TouchByIdFresh(ids, record) ==
  [ids EXCEPT !.id_by_record_and_value = DictPut(@, Repr(record), <<>>)]

\* RememberedIds.get looks the key up in a defaultdict, which inserts it.
TouchById(ids, record) ==
  [ids EXCEPT !.id_by_record_and_value =
     DictPut(@, Repr(record), DictGet(@, Repr(record), <<>>))]

\* RememberedIds.has_unique_ids looks the key up in a defaultdict too.
TouchAllIds(ids, record) ==
  [ids EXCEPT !.all_ids_for_record =
     DictPut(@, Repr(record), DictGet(@, Repr(record), <<>>))]

\* UpdateEligible with the test of has_unique_ids inverted.
UpdateEligibleInverted(ids, record, id) ==
  Truthy(id) /\ ~has_unique_ids(ids, record)

\* UpdateEligible without the test of has_unique_ids.
UpdateEligibleIdOnly(ids, record, id) == Truthy(id)

\* The condition of the update branch.
UpdateEligible(ids, record, id) == Truthy(id) /\ has_unique_ids(ids, record)

\* One provider call as the log keeps it. pair is the number of the pair the
\* call belongs to, 0 for a call of the two loops after the pair loop.
Call(op, id, args, ok, pair) ==
  [op |-> op, identifier |-> id, content |-> args.content,
   rtype |-> args.rtype, name |-> args.name, ok |-> ok, pair |-> pair]

\* Raise that always raises the base class.
RaiseBaseClass(kind, record, id) ==
  [kind |-> "RecordUpdateError", record |-> record, identifier |-> id]

\* raise RecordUpdateError(record, identifier) and its subclasses
Raise(kind, record, id) == [kind |-> kind, record |-> record, identifier |-> id]

\* _apply up to the first provider call of the change: the ttl is pushed
\* into the dynamic config, both records are encoded, the differences are
\* sorted.
ApplyBegin ==
  /\ pc = "idle"
  /\ \E new \in NewRecords \cup {NoRecord} :
       LET existing == Existing(provider)
           record   == IF new.present THEN new ELSE existing
           old_vars == IF existing.present
                       THEN rrset_for_multiple(existing) ELSE {}
           new_vars == IF new.present THEN rrset_for_multiple(new) ELSE {}
           adds     == Additions(old_vars, new_vars)
           dels     == Deletions(old_vars, new_vars)
       IN  /\ existing.present \/ new.present
           /\ change' = [existing |-> existing, new |-> new]
           /\ provider_before' = provider
           /\ lexicon_ttl' = record.ttl
           /\ additions' = adds
           /\ deletions' = dels
           /\ additions_iter' = Sorted(adds)
           /\ deletions_iter' = Sorted(dels)
           /\ i' = 0
           /\ pc' = Continue(0, adds, dels, Sorted(adds), Sorted(dels))
  /\ UNCHANGED <<provider, zone, exists, remembered_ids, populated, new_record,
                 old_record, identifier, calls, raised>>
  /\ UNCHANGED unit_vars

\* One turn of the pair loop that takes the update branch.
PairUpdate ==
  /\ pc = "pair"
  /\ LET new_r == Head(additions_iter)
         old_r == Head(deletions_iter)
         id    == get(remembered_ids, change.existing, old_r.content)
     IN  /\ UpdateEligible(remembered_ids, change.existing, id)
         /\ new_record' = new_r
         /\ old_record' = old_r
         /\ identifier' = id
         /\ additions_iter' = Tail(additions_iter)
         /\ deletions_iter' = Tail(deletions_iter)
         /\ remembered_ids' =
              TouchAllIds(TouchById(remembered_ids, change.existing),
                          change.existing)
         /\ \E ok \in BOOLEAN :
              /\ calls' = Append(calls,
                                 Call("update_record", id, func_args(new_r),
                                      ok, i + 1))
              /\ IF ok
                 THEN /\ provider' = update_record(provider, lexicon_ttl, id,
                                                   func_args(new_r))
                      /\ i' = i + 1
                      /\ pc' = Continue(i + 1, additions, deletions,
                                        Tail(additions_iter),
                                        Tail(deletions_iter))
                      /\ UNCHANGED raised
                 ELSE /\ raised' = Raise("RecordUpdateError", new_r, id)
                      /\ pc' = "raised"
                      /\ UNCHANGED <<provider, i>>
  /\ UNCHANGED <<zone, exists, populated, lexicon_ttl, change, provider_before,
                 additions,
                 deletions>>
  /\ UNCHANGED unit_vars

\* One turn of the pair loop that takes the other branch, up to the return
\* of create_record.
PairCreate ==
  /\ pc = "pair"
  /\ LET new_r == Head(additions_iter)
         old_r == Head(deletions_iter)
         id    == get(remembered_ids, change.existing, old_r.content)
     IN  /\ ~UpdateEligible(remembered_ids, change.existing, id)
         /\ new_record' = new_r
         /\ old_record' = old_r
         /\ identifier' = id
         /\ additions_iter' = Tail(additions_iter)
         /\ deletions_iter' = Tail(deletions_iter)
         /\ remembered_ids' =
              IF Truthy(id)
              THEN TouchAllIds(TouchById(remembered_ids, change.existing),
                               change.existing)
              ELSE TouchById(remembered_ids, change.existing)
         /\ \E ok \in BOOLEAN :
              /\ calls' = Append(calls,
                                 Call("create_record", None, func_args(new_r),
                                      ok, i + 1))
              /\ IF ok
                 THEN /\ provider' = create_record(provider, lexicon_ttl,
                                                   func_args(new_r))
                      /\ pc' = "pair_delete"
                      /\ UNCHANGED raised
                 ELSE /\ raised' = Raise("RecordCreateError", new_r, None)
                      /\ pc' = "raised"
                      /\ UNCHANGED provider
  /\ UNCHANGED <<zone, exists, populated, lexicon_ttl, change, provider_before,
                 additions,
                 deletions, i>>
  /\ UNCHANGED unit_vars

\* PairDeleteIdentifier handing the looked-up identifier on.
PairDeleteIdentifierPassed(id) == id

\* The identifier the pair loop's delete_record call is given: none, the
\* call is delete_record(**old_record.func_args()).
PairDeleteIdentifier(id) == None

\* The rest of that turn: delete_record(**old_record.func_args()).
PairDelete ==
  /\ pc = "pair_delete"
  /\ \E ok \in BOOLEAN :
       /\ calls' = Append(calls,
                          Call("delete_record",
                               PairDeleteIdentifier(identifier),
                               func_args(old_record), ok, i + 1))
       /\ IF ok
          THEN /\ provider' = delete_record(provider,
                                            PairDeleteIdentifier(identifier),
                                            func_args(old_record))
               /\ i' = i + 1
               /\ pc' = Continue(i + 1, additions, deletions, additions_iter,
                                 deletions_iter)
               /\ UNCHANGED raised
          ELSE /\ raised' = Raise("RecordDeleteError", old_record, None)
               /\ pc' = "raised"
               /\ UNCHANGED <<provider, i>>
  /\ UNCHANGED <<zone, exists, remembered_ids, populated, lexicon_ttl, change,
                 provider_before,
                 additions, deletions, additions_iter, deletions_iter,
                 new_record, old_record, identifier>>
  /\ UNCHANGED unit_vars

\* One turn of the loop over what additions_iter has left.
BareCreate ==
  /\ pc = "create"
  /\ LET new_r == Head(additions_iter)
     IN  /\ new_record' = new_r
         /\ additions_iter' = Tail(additions_iter)
         /\ \E ok \in BOOLEAN :
              /\ calls' = Append(calls,
                                 Call("create_record", None, func_args(new_r),
                                      ok, 0))
              /\ IF ok
                 THEN /\ provider' = create_record(provider, lexicon_ttl,
                                                   func_args(new_r))
                      /\ pc' = Continue(i, additions, deletions,
                                        Tail(additions_iter), deletions_iter)
                      /\ UNCHANGED raised
                 ELSE /\ raised' = Raise("RecordCreateError", new_r, None)
                      /\ pc' = "raised"
                      /\ UNCHANGED provider
  /\ UNCHANGED <<zone, exists, remembered_ids, populated, lexicon_ttl, change,
                 provider_before,
                 additions, deletions, deletions_iter, i, old_record,
                 identifier>>
  /\ UNCHANGED unit_vars

\* One turn of the loop over what deletions_iter has left.
BareDelete ==
  /\ pc = "delete"
  /\ LET old_r == Head(deletions_iter)
         id    == get(remembered_ids, change.existing, old_r.content)
     IN  /\ old_record' = old_r
         /\ identifier' = id
         /\ deletions_iter' = Tail(deletions_iter)
         /\ remembered_ids' = TouchById(remembered_ids, change.existing)
         /\ \E ok \in BOOLEAN :
              /\ calls' = Append(calls,
                                 Call("delete_record", id, func_args(old_r),
                                      ok, 0))
              /\ IF ok
                 THEN /\ provider' = delete_record(provider, id,
                                                   func_args(old_r))
                      /\ pc' = Continue(i, additions, deletions,
                                        additions_iter, Tail(deletions_iter))
                      /\ UNCHANGED raised
                 ELSE /\ raised' = Raise("RecordDeleteError", old_r, None)
                      /\ pc' = "raised"
                      /\ UNCHANGED provider
  /\ UNCHANGED <<zone, exists, populated, lexicon_ttl, change, provider_before,
                 additions,
                 deletions, additions_iter, i, new_record>>
  /\ UNCHANGED unit_vars

\* ----------------------------------------------------------- specification

\* No thread is started.
LockIdle ==
  /\ lock = ""
  /\ shared_ids = EmptyIds
  /\ w_pc = <<>>
  /\ w_call = <<>>
  /\ w_left = <<>>
  /\ r_pc = "idle"
  /\ r_call = <<>>
  /\ r_id = None
  /\ r_all = <<>>

\* No record is being encoded.
CodecIdle ==
  /\ encoded_record = NoRecord
  /\ rrset = {}
  /\ data = <<>>
  /\ codec_pc = "start"

\* No listing is being populated.
ListingIdle ==
  /\ listing = <<>>
  /\ SUPPORTS = {}
  /\ loaded_types = <<>>
  /\ group = 0
  /\ zone_records = <<>>
  /\ listing_ids = EmptyIds
  /\ listing_exists = FALSE
  /\ populate_pc = "start"
  /\ populate_raised = 0

\* No name is being made zone-relative.
NameIdle ==
  /\ listed_name = <<>>
  /\ record_by_name = <<>>
  /\ record_name = <<>>
  /\ name_pc = "start"

Init ==
  /\ provider \in InitialProviders
  /\ provider_before = {}
  /\ zone = NoRecord
  /\ exists = FALSE
  /\ remembered_ids = EmptyIds
  /\ populated = 0
  /\ lexicon_ttl = DefaultTtl
  /\ pc = "idle"
  /\ change = [existing |-> NoRecord, new |-> NoRecord]
  /\ additions = {}
  /\ deletions = {}
  /\ additions_iter = <<>>
  /\ deletions_iter = <<>>
  /\ i = 0
  /\ new_record = NoFlat
  /\ old_record = NoFlat
  /\ identifier = None
  /\ calls = <<>>
  /\ raised = NoError
  /\ LockIdle
  /\ CodecIdle
  /\ ListingIdle
  /\ NameIdle

Next ==
  \/ populate
  \/ ApplyBegin
  \/ PairUpdate
  \/ PairCreate
  \/ PairDelete
  \/ BareCreate
  \/ BareDelete

Spec == Init /\ [][Next]_vars

\* The session at rest, for the specifications of single units.
SessionIdle ==
  /\ provider = {}
  /\ provider_before = {}
  /\ zone = NoRecord
  /\ exists = FALSE
  /\ remembered_ids = EmptyIds
  /\ populated = 0
  /\ lexicon_ttl = DefaultTtl
  /\ pc = "idle"
  /\ change = [existing |-> NoRecord, new |-> NoRecord]
  /\ additions = {}
  /\ deletions = {}
  /\ additions_iter = <<>>
  /\ deletions_iter = <<>>
  /\ i = 0
  /\ new_record = NoFlat
  /\ old_record = NoFlat
  /\ identifier = None
  /\ calls = <<>>
  /\ raised = NoError

\* ------------------------------------------------- RememberedIds and threads

\* remember calls each remembering thread makes.
MaxRemember == 1

\* Threads that populate (and so remember) at the same time.
Writers == {"w1", "w2"}

\* No thread holds RememberedIds.lock.
Unlocked == ""

\* The records and contents the threads remember and look up.
ThreadRecords == {[present |-> TRUE, ttl |-> t, values |-> {<<"a">>, <<"b">>}]
                    : t \in Ttls}

ThreadContents == {<<"a">>, <<"b">>}

NoCall == [record |-> NoRecord, content |-> <<>>, id |-> None]

\* remember, line 389: the content-to-id entry is written under the key
\* repr(record).
PutByValue(m, key, content, id) ==
  [m EXCEPT !.id_by_record_and_value =
     DictPut(@, key, DictPut(DictGet(@, key, <<>>), content, id))]

\* remember, line 390: the id is appended to the record's list.
AppendId(m, key, id) ==
  [m EXCEPT !.all_ids_for_record =
     DictPut(@, key, Append(DictGet(@, key, <<>>), id))]

\* remember enters "with self.lock" when the lock is free.
RememberAcquire(t) ==
  /\ w_pc[t] = "idle"
  /\ w_left[t] > 0
  /\ lock = Unlocked
  /\ lock' = t
  /\ \E record \in ThreadRecords, content \in ThreadContents, id \in 1..MaxId :
       w_call' = [w_call EXCEPT
                    ![t] = [record |-> record, content |-> content, id |-> id]]
  /\ w_pc' = [w_pc EXCEPT ![t] = "by_value"]
  /\ UNCHANGED <<shared_ids, w_left, r_pc, r_call, r_id, r_all>>
  /\ UNCHANGED <<session_vars, codec_vars, listing_vars, name_vars>>

\* remember, first statement under the lock.
RememberByValue(t) ==
  /\ w_pc[t] = "by_value"
  /\ shared_ids' = PutByValue(shared_ids, Repr(w_call[t].record),
                              w_call[t].content, w_call[t].id)
  /\ w_pc' = [w_pc EXCEPT ![t] = "append"]
  /\ UNCHANGED <<lock, w_call, w_left, r_pc, r_call, r_id, r_all>>
  /\ UNCHANGED <<session_vars, codec_vars, listing_vars, name_vars>>

\* remember, second statement under the lock.
RememberAppend(t) ==
  /\ w_pc[t] = "append"
  /\ shared_ids' = AppendId(shared_ids, Repr(w_call[t].record), w_call[t].id)
  /\ w_pc' = [w_pc EXCEPT ![t] = "release"]
  /\ UNCHANGED <<lock, w_call, w_left, r_pc, r_call, r_id, r_all>>
  /\ UNCHANGED <<session_vars, codec_vars, listing_vars, name_vars>>

\* remember leaves "with self.lock".
RememberRelease(t) ==
  /\ w_pc[t] = "release"
  /\ lock' = Unlocked
  /\ w_pc' = [w_pc EXCEPT ![t] = "idle"]
  /\ w_left' = [w_left EXCEPT ![t] = @ - 1]
  /\ UNCHANGED <<shared_ids, w_call, r_pc, r_call, r_id, r_all>>
  /\ UNCHANGED <<session_vars, codec_vars, listing_vars, name_vars>>

\* Whether a looking-up thread may touch the maps: get, has_unique_ids and
\* get_all_ids never take RememberedIds.lock.
MayLookUp == TRUE

\* get(record, content) by the looking-up thread.
LookUpGet ==
  /\ r_pc = "idle"
  /\ MayLookUp
  /\ \E record \in ThreadRecords, content \in ThreadContents :
       /\ r_call' = [record |-> record, content |-> content, id |-> None]
       /\ r_id' = get(shared_ids, record, content)
       /\ shared_ids' = TouchById(shared_ids, record)
  /\ r_pc' = "got"
  /\ UNCHANGED <<lock, w_pc, w_call, w_left, r_all>>
  /\ UNCHANGED <<session_vars, codec_vars, listing_vars, name_vars>>

\* has_unique_ids(record) by the looking-up thread, after its get.
LookUpHasUniqueIds ==
  /\ r_pc = "got"
  /\ MayLookUp
  /\ r_all' = get_all_ids(shared_ids, r_call.record)
  /\ shared_ids' = TouchAllIds(shared_ids, r_call.record)
  /\ r_pc' = "done"
  /\ UNCHANGED <<lock, w_pc, w_call, w_left, r_call, r_id>>
  /\ UNCHANGED <<session_vars, codec_vars, listing_vars, name_vars>>

\* get_all_ids(record) by the looking-up thread, after its get.
LookUpGetAllIds ==
  /\ r_pc = "got"
  /\ MayLookUp
  /\ r_all' = get_all_ids(shared_ids, r_call.record)
  /\ shared_ids' = TouchAllIds(shared_ids, r_call.record)
  /\ r_pc' = "listed"
  /\ UNCHANGED <<lock, w_pc, w_call, w_left, r_call, r_id>>
  /\ UNCHANGED <<session_vars, codec_vars, listing_vars, name_vars>>

InitLock ==
  /\ SessionIdle
  /\ CodecIdle
  /\ ListingIdle
  /\ NameIdle
  /\ lock = Unlocked
  /\ shared_ids = EmptyIds
  /\ w_pc = [t \in Writers |-> "idle"]
  /\ w_call = [t \in Writers |-> NoCall]
  /\ w_left = [t \in Writers |-> MaxRemember]
  /\ r_pc = "idle"
  /\ r_call = NoCall
  /\ r_id = None
  /\ r_all = <<>>

NextLock ==
  \/ \E t \in Writers : RememberAcquire(t)
  \/ \E t \in Writers : RememberByValue(t)
  \/ \E t \in Writers : RememberAppend(t)
  \/ \E t \in Writers : RememberRelease(t)
  \/ LookUpGet
  \/ LookUpHasUniqueIds
  \/ LookUpGetAllIds

SpecLock == InitLock /\ [][NextLock]_vars

\* ------------------------------------------------------------ str and shlex

\* s.endswith(suffix)
EndsWith(s, suffix) ==
  /\ Len(s) >= Len(suffix)
  /\ SubSeq(s, Len(s) - Len(suffix) + 1, Len(s)) = suffix

RECURSIVE RStrip(_, _)
\* s.rstrip(ch): every trailing ch goes.
RStrip(s, ch) ==
  IF s # <<>> /\ s[Len(s)] = ch THEN RStrip(SubSeq(s, 1, Len(s) - 1), ch)
  ELSE s

\* s[:-n] for n > 0: empty when s has no more than n characters.
DropLast(s, n) == SubSeq(s, 1, Len(s) - n)

\* ch in s
Contains(s, ch) == \E k \in DOMAIN s : s[k] = ch

\* One decimal digit.
DigitOf(n) ==
  CASE n = 0 -> "0" [] n = 1 -> "1" [] n = 2 -> "2" [] n = 3 -> "3"
    [] n = 4 -> "4" [] n = 5 -> "5" [] n = 6 -> "6" [] n = 7 -> "7"
    [] n = 8 -> "8" [] n = 9 -> "9"

RECURSIVE Format(_)
\* '{}'.format(n) of a natural number.
Format(n) ==
  IF n < 10 THEN <<DigitOf(n)>>
  ELSE Format(n \div 10) \o <<DigitOf(n % 10)>>

\* What shlex.split gives: the tokens, or the ValueError it raises.
ShlexTokens(tokens) == [ok |-> TRUE, tokens |-> tokens]

ShlexValueError == [ok |-> FALSE, tokens |-> <<>>]

RECURSIVE ShlexRead(_, _, _, _)
\* shlex.shlex(s, posix=True) with whitespace_split, read to the end. state:
\* ws (between tokens), word, dquote, squote, escape (after a backslash in a
\* word), dquote_escape (after a backslash between double quotes).
ShlexRead(s, state, token, tokens) ==
  IF s = <<>>
  THEN CASE state = "ws"   -> ShlexTokens(tokens)
         [] state = "word" -> ShlexTokens(Append(tokens, token))
         [] OTHER          -> ShlexValueError
  ELSE LET ch   == Head(s)
           rest == Tail(s)
       IN  CASE state \in {"ws", "word"} ->
                  IF ch = " "
                  THEN ShlexRead(rest, "ws", <<>>,
                                 IF state = "word" THEN Append(tokens, token)
                                 ELSE tokens)
                  ELSE IF ch = "\""
                  THEN ShlexRead(rest, "dquote", token, tokens)
                  ELSE IF ch = "'"
                  THEN ShlexRead(rest, "squote", token, tokens)
                  ELSE IF ch = "\\"
                  THEN ShlexRead(rest, "escape", token, tokens)
                  ELSE ShlexRead(rest, "word", Append(token, ch), tokens)
             [] state = "dquote" ->
                  IF ch = "\"" THEN ShlexRead(rest, "word", token, tokens)
                  ELSE IF ch = "\\"
                  THEN ShlexRead(rest, "dquote_escape", token, tokens)
                  ELSE ShlexRead(rest, "dquote", Append(token, ch), tokens)
             [] state = "squote" ->
                  IF ch = "'" THEN ShlexRead(rest, "word", token, tokens)
                  ELSE ShlexRead(rest, "squote", Append(token, ch), tokens)
             [] state = "escape" ->
                  ShlexRead(rest, "word", Append(token, ch), tokens)
             [] state = "dquote_escape" ->
                  ShlexRead(rest, "dquote",
                            IF ch \in {"\"", "\\"} THEN Append(token, ch)
                            ELSE token \o <<"\\", ch>>,
                            tokens)

\* shlex.split(s)
ShlexSplit(s) == ShlexRead(s, "ws", <<>>, <<>>)

\* -------------------------------------------------- codec, for every type

\* LexiconProvider.IMPLEMENTED
IMPLEMENTED ==
  {"A", "AAAA", "ALIAS", "CAA", "CNAME", "MX", "NS", "SRV", "TXT"}

\* LexiconRecord(content, ttl, rtype, name) of an octodns record of any type.
LexiconRecord(content, octodns_record) ==
  [content |-> content, ttl |-> octodns_record.ttl,
   rtype |-> octodns_record.type, name |-> octodns_record.fqdn]

\* _rrset_for_A = _rrset_for_multiple (also AAAA, NS, TXT): content verbatim.
rrset_for_A(octodns_record) ==
  {LexiconRecord(c, octodns_record) : c \in octodns_record.values}

\* _rrset_for_CAA: '{} {} "{}"'.format(c.flags, c.tag, c.value)
rrset_for_CAA(octodns_record) ==
  {LexiconRecord(Format(c.flags) \o <<" ">> \o c.tag \o <<" ", "\"">>
                   \o c.value \o <<"\"">>,
                 octodns_record) : c \in octodns_record.values}

\* _rrset_for_CNAME (also ALIAS): the one value.
rrset_for_CNAME(octodns_record) ==
  {LexiconRecord(octodns_record.value, octodns_record)}

\* _rrset_for_MX: '{} {}'.format(c.preference, c.exchange)
rrset_for_MX(octodns_record) ==
  {LexiconRecord(Format(c.preference) \o <<" ">> \o c.exchange,
                 octodns_record) : c \in octodns_record.values}

\* _rrset_for_SRV: '{} {} {} {}'.format(priority, weight, port, target)
rrset_for_SRV(octodns_record) ==
  {LexiconRecord(Format(c.priority) \o <<" ">> \o Format(c.weight)
                   \o <<" ">> \o Format(c.port) \o <<" ">> \o c.target,
                 octodns_record) : c \in octodns_record.values}

\* getattr(self, '_rrset_for_{}'.format(_type))
rrset_func(octodns_record) ==
  CASE octodns_record.type \in {"A", "AAAA", "NS", "TXT"} ->
         rrset_for_A(octodns_record)
    [] octodns_record.type = "CAA" -> rrset_for_CAA(octodns_record)
    [] octodns_record.type \in {"CNAME", "ALIAS"} ->
         rrset_for_CNAME(octodns_record)
    [] octodns_record.type = "MX" -> rrset_for_MX(octodns_record)
    [] octodns_record.type = "SRV" -> rrset_for_SRV(octodns_record)

\* What a _data_for_<type> gives: the data, or the ValueError of an unpacking
\* or of shlex.split.
Data(d) == [ok |-> TRUE, data |-> d]

DataValueError == [ok |-> FALSE, data |-> <<>>]

\* "a, b, ... = shlex.split(content)" with n names succeeds.
Unpacks(content, n) ==
  ShlexSplit(content).ok /\ Len(ShlexSplit(content).tokens) = n

\* _data_for_A = _data_for_multiple (also AAAA, NS, TXT)
data_for_A(_type, lexicon_records) ==
  Data([ttl |-> lexicon_records[1].ttl, type |-> _type,
        values |-> [k \in DOMAIN lexicon_records |->
                      ReSubSemicolon(lexicon_records[k].content)]])

\* _data_for_CAA
data_for_CAA(_type, lexicon_records) ==
  IF \A k \in DOMAIN lexicon_records : Unpacks(lexicon_records[k].content, 3)
  THEN Data([ttl |-> lexicon_records[1].ttl, type |-> _type,
             values |-> [k \in DOMAIN lexicon_records |->
                LET t == ShlexSplit(lexicon_records[k].content).tokens
                IN  [flags |-> t[1], tag |-> t[2], value |-> t[3]]]])
  ELSE DataValueError

\* _data_for_CNAME (also ALIAS): the first listed record only.
data_for_CNAME(_type, lexicon_records) ==
  Data([ttl |-> lexicon_records[1].ttl, type |-> _type,
        value |-> lexicon_records[1].content])

\* _data_for_MX
data_for_MX(_type, lexicon_records) ==
  IF \A k \in DOMAIN lexicon_records : Unpacks(lexicon_records[k].content, 2)
  THEN Data([ttl |-> lexicon_records[1].ttl, type |-> _type,
             values |-> [k \in DOMAIN lexicon_records |->
                LET t == ShlexSplit(lexicon_records[k].content).tokens
                IN  [priority |-> t[1], exchange |-> t[2]]]])
  ELSE DataValueError

\* _data_for_SRV
data_for_SRV(_type, lexicon_records) ==
  IF \A k \in DOMAIN lexicon_records : Unpacks(lexicon_records[k].content, 4)
  THEN Data([ttl |-> lexicon_records[1].ttl, type |-> _type,
             values |-> [k \in DOMAIN lexicon_records |->
                LET t == ShlexSplit(lexicon_records[k].content).tokens
                IN  [priority |-> t[1], weight |-> t[2], port |-> t[3],
                     target |-> t[4]]]])
  ELSE DataValueError

\* getattr(self, '_data_for_{}'.format(record_type))
data_func(_type, lexicon_records) ==
  CASE _type \in {"A", "AAAA", "NS", "TXT"} ->
         data_for_A(_type, lexicon_records)
    [] _type = "CAA" -> data_for_CAA(_type, lexicon_records)
    [] _type \in {"CNAME", "ALIAS"} -> data_for_CNAME(_type, lexicon_records)
    [] _type = "MX" -> data_for_MX(_type, lexicon_records)
    [] _type = "SRV" -> data_for_SRV(_type, lexicon_records)

\* ------------------------------------------------------- codec round trip

\* Largest number of values of an encoded record.
MaxCodecValues == 2

CodecFqdn == <<"w", ".", "e", ".", "c", ".">>

\* Values an octodns record of the type may hold. TXT values hold their
\* semicolons escaped, as octodns requires; numbers are Python ints.
ValuesOf(_type) ==
  CASE _type = "A"    -> {<<"1", ".", "2">>, <<"3", ".", "4">>}
    [] _type = "AAAA" -> {<<":", ":", "1">>, <<":", ":", "2">>}
    [] _type = "NS"   -> {<<"n", ".", "e", ".">>, <<"m", ".", "e", ".">>}
    [] _type = "TXT"  -> {<<"v">>, <<"a", " ", "b">>, <<"a", "\\", ";", "b">>}
    [] _type = "CAA"  ->
         {[flags |-> f, tag |-> <<"i">>, value |-> v]
            : f \in {0, 128}, v \in {<<"x">>, <<"x", " ", "y">>}}
    [] _type = "MX"   ->
         {[preference |-> p, exchange |-> <<"m", ".", "e", ".">>]
            : p \in {10, 20}}
    [] _type = "SRV"  ->
         {[priority |-> 1, weight |-> w, port |-> 80,
           target |-> <<"t", ".", "e", ".">>] : w \in {0, 5}}
    [] _type \in {"CNAME", "ALIAS"} ->
         {<<"t", ".", "e", ".">>, <<"u", ".", "e", ".">>}

\* The octodns records of a type handed to the codec: one value for CNAME
\* and ALIAS, a non-empty set of values for every other type.
CodecRecords(_type) ==
  IF _type \in {"CNAME", "ALIAS"}
  THEN {[type |-> _type, ttl |-> ttl, fqdn |-> CodecFqdn, value |-> v]
          : ttl \in Ttls, v \in ValuesOf(_type)}
  ELSE {[type |-> _type, ttl |-> ttl, fqdn |-> CodecFqdn, values |-> V]
          : ttl \in Ttls,
            V \in {W \in SUBSET ValuesOf(_type) :
                     W # {} /\ Cardinality(W) <= MaxCodecValues}}

\* The orders in which a set of flat records may be listed.
Orders(S) ==
  {f \in [1..Cardinality(S) -> S] :
     \A j, k \in 1..Cardinality(S) : j # k => f[j] # f[k]}

\* _rrset_for_<type>(octodns_record)
Encode ==
  /\ codec_pc = "start"
  /\ rrset' = rrset_func(encoded_record)
  /\ codec_pc' = "encoded"
  /\ UNCHANGED <<encoded_record, data>>
  /\ UNCHANGED <<session_vars, lock_vars, listing_vars, name_vars>>

\* _data_for_<type>(type, lexicon_records) for the encoded records, listed
\* in some order.
Decode ==
  /\ codec_pc = "encoded"
  /\ \E lexicon_records \in Orders(rrset) :
       data' = data_func(encoded_record.type, lexicon_records)
  /\ codec_pc' = "decoded"
  /\ UNCHANGED <<encoded_record, rrset>>
  /\ UNCHANGED <<session_vars, lock_vars, listing_vars, name_vars>>

InitCodec ==
  /\ SessionIdle
  /\ LockIdle
  /\ ListingIdle
  /\ NameIdle
  /\ \E _type \in IMPLEMENTED : encoded_record \in CodecRecords(_type)
  /\ rrset = {}
  /\ data = <<>>
  /\ codec_pc = "start"

NextCodec ==
  \/ Encode
  \/ Decode

SpecCodec == InitCodec /\ [][NextCodec]_vars

\* ------------------------------------------------------ zone-relative name

\* Largest number of labels of a listed name.
MaxLabels == 3

\* zone.name: example.com.
ZoneName ==
  <<"e", "x", "a", "m", "p", "l", "e", ".", "c", "o", "m", ".">>

\* Labels of the listed names: foo, www, example, com, fooexample.
Labels ==
  {<<"f", "o", "o">>, <<"w", "w", "w">>,
   <<"e", "x", "a", "m", "p", "l", "e">>, <<"c", "o", "m">>,
   <<"f", "o", "o", "e", "x", "a", "m", "p", "l", "e">>}

RECURSIVE Join(_)
\* '.'.join(labels)
Join(labels) ==
  IF Len(labels) = 1 THEN labels[1]
  ELSE labels[1] \o <<".">> \o Join(Tail(labels))

\* The names a provider may list: one to MaxLabels labels, relative or
\* absolute, with or without the final dot.
ListedNames ==
  UNION {{Join(ls) : ls \in [1..n -> Labels]} \cup
         {Join(ls) \o <<".">> : ls \in [1..n -> Labels]} : n \in 1..MaxLabels}

\* Lines 128-133: a name ending in zone.name loses its trailing dots.
StripZoneDot(name) ==
  IF EndsWith(name, ZoneName) THEN RStrip(name, ".") ELSE name

\* Lines 135-138: a name ending in zone.name[:-1] loses len(zone.name)
\* characters.
RelativeName(name) ==
  IF EndsWith(name, DropLast(ZoneName, 1))
  THEN DropLast(name, Len(ZoneName))
  ELSE name

\* populate, lines 128-133
StripName ==
  /\ name_pc = "start"
  /\ record_by_name' = StripZoneDot(record_by_name)
  /\ name_pc' = "stripped"
  /\ UNCHANGED <<listed_name, record_name>>
  /\ UNCHANGED <<session_vars, lock_vars, codec_vars, listing_vars>>

\* populate, lines 135-138
NameRecord ==
  /\ name_pc = "stripped"
  /\ record_name' = RelativeName(record_by_name)
  /\ name_pc' = "named"
  /\ UNCHANGED <<listed_name, record_by_name>>
  /\ UNCHANGED <<session_vars, lock_vars, codec_vars, listing_vars>>

InitName ==
  /\ SessionIdle
  /\ LockIdle
  /\ CodecIdle
  /\ ListingIdle
  /\ listed_name \in ListedNames
  /\ record_by_name = listed_name
  /\ record_name = <<>>
  /\ name_pc = "start"

NextName ==
  \/ StripName
  \/ NameRecord

SpecName == InitName /\ [][NextName]_vars

\* ------------------------------------------- populate of a whole listing

\* Largest number of flat records of a listing.
MaxListing == 3

\* s.upper() of a type name of the configuration.
Upper(s) ==
  CASE s = "txt" -> "TXT" [] s = "caa" -> "CAA" [] s = "cname" -> "CNAME"
    [] s = "srv" -> "SRV" [] s = "ptr" -> "PTR" [] OTHER -> s

\* LexiconProvider.__init__: SUPPORTS from the "supports" argument.
SupportsOf(supports) ==
  IF supports = {} THEN IMPLEMENTED
  ELSE IMPLEMENTED \cap {Upper(x) : x \in supports}

\* The "supports" arguments of the configurations: none, or an allow-list
\* without MX and NS.
SupportsArguments == {{}, {"txt", "caa", "cname", "srv", "ptr"}}

\* www.example.com
WwwName ==
  <<"w", "w", "w", ".", "e", "x", "a", "m", "p", "l", "e", ".", "c", "o", "m">>

\* What a provider may list, as (name, type, content): contents are not
\* empty and shell-splittable. CNAME f; NS n.s. and n.s; MX 10 m and m;
\* CAA 0 i "x" and 0 i; SRV 1 2 3 t. and 1 2 t.; TXT v; SOA s.
ListedRecords ==
  {<<WwwName, "CNAME", <<"f">>>>,
   <<ZoneName, "NS", <<"n", ".", "s", ".">>>>,
   <<ZoneName, "NS", <<"n", ".", "s">>>>,
   <<ZoneName, "MX", <<"1", "0", " ", "m">>>>,
   <<ZoneName, "MX", <<"m">>>>,
   <<ZoneName, "CAA", <<"0", " ", "i", " ", "\"", "x", "\"">>>>,
   <<ZoneName, "CAA", <<"0", " ", "i">>>>,
   <<WwwName, "SRV", <<"1", " ", "2", " ", "3", " ", "t", ".">>>>,
   <<WwwName, "SRV", <<"1", " ", "2", " ", "t", ".">>>>,
   <<WwwName, "TXT", <<"v">>>>,
   <<ZoneName, "SOA", <<"s">>>>}

\* The listings: up to MaxListing different records, the provider's id of
\* each its position.
Listings ==
  UNION {{[k \in 1..n |->
             [name |-> f[k][1], type |-> f[k][2], content |-> f[k][3],
              ttl |-> 300, id |-> k]]
            : f \in {h \in [1..n -> ListedRecords] :
                       \A j, k \in 1..n : j # k => h[j] # h[k]}}
           : n \in 0..MaxListing}

\* The harmonization appending a dot in every case.
HarmonizeDotOnly(_type, content) ==
  IF _type \in {"CNAME", "MX", "NS"} /\ content[Len(content)] # "."
  THEN content \o <<".">>
  ELSE content

\* Lines 100-106: the content of a CNAME, MX or NS record made absolute.
Harmonize(_type, content) ==
  IF _type \in {"CNAME", "MX", "NS"} /\ content[Len(content)] # "."
  THEN LET tokens      == ShlexSplit(content).tokens
           domain_part == tokens[Len(tokens)]
       IN  IF Contains(domain_part, ".") THEN content \o <<".">>
           ELSE content \o <<".">> \o ZoneName
  ELSE content

RECURSIVE FirstSeen(_)
\* The keys of a dict filled in this order.
FirstSeen(seq) ==
  IF seq = <<>> THEN <<>>
  ELSE LET before == FirstSeen(SubSeq(seq, 1, Len(seq) - 1))
           last   == seq[Len(seq)]
       IN  IF \E k \in DOMAIN before : before[k] = last THEN before
           ELSE Append(before, last)

RECURSIVE GroupsOf(_, _)
\* loaded_types as (name, type, records) in the order the two nested
\* loops of lines 114-115 go through it: names as first listed, the types
\* of one name as first listed.
GroupsOf(names, records) ==
  IF names = <<>> THEN <<>>
  ELSE LET named ==
             SelectSeq(records, LAMBDA r : r.name = Head(names))
           types == FirstSeen([k \in DOMAIN named |-> named[k].type])
       IN  [k \in DOMAIN types |->
              [name |-> Head(names), type |-> types[k],
               records |-> SelectSeq(named, LAMBDA r : r.type = types[k])]]
           \o GroupsOf(Tail(names), records)

\* Record.new(zone, record_name, data): name, type, ttl and the values.
GroupRecord(name, d) ==
  [name |-> name, type |-> d.type, ttl |-> d.ttl,
   rdata |-> IF d.type \in {"CNAME", "ALIAS"} THEN d.value ELSE d.values]

\* repr(record)
GroupRepr(record) == <<record.type, record.ttl, record.name, record.rdata>>

RECURSIVE RememberGroup(_, _, _, _)
\* Lines 151-154: remember every flat record of the group, from the k-th on.
RememberGroup(m, record, lexicon_records, k) ==
  IF k > Len(lexicon_records) THEN m
  ELSE RememberGroup(
         AppendId(PutByValue(m, GroupRepr(record), lexicon_records[k].content,
                             lexicon_records[k].id),
                  GroupRepr(record), lexicon_records[k].id),
         record, lexicon_records, k + 1)

\* The record_type in self.SUPPORTS of the configuration, whatever is
\* implemented.
IsSupportedImplemented(_type, supports) == _type \in IMPLEMENTED

\* Line 118: record_type in self.SUPPORTS
IsSupported(_type, supports) == _type \in supports

\* A ValueError of _data_func caught per group.
AfterValueErrorIsolated == "groups"

\* Where populate is after _data_func raised ValueError: nothing catches it.
AfterValueError == "raised"

\* The group the second loop is at.
ThisGroup == loaded_types[group + 1]

\* Lines 92-112: the listing is read, every record harmonized and filed
\* under its name and type.
ListRecords ==
  /\ populate_pc = "start"
  /\ LET harmonized ==
           [k \in DOMAIN listing |->
              [listing[k] EXCEPT
                 !.content = Harmonize(listing[k].type, listing[k].content)]]
     IN  loaded_types' =
           GroupsOf(FirstSeen([k \in DOMAIN listing |-> listing[k].name]),
                    harmonized)
  /\ listing_exists' = (listing # <<>>)
  /\ populate_pc' = "groups"
  /\ UNCHANGED <<listing, SUPPORTS, group, zone_records, listing_ids,
                 populate_raised>>
  /\ UNCHANGED <<session_vars, lock_vars, codec_vars, name_vars>>

\* Lines 118-156: a supported group is decoded, named, remembered and added
\* to the zone.
AddGroup ==
  /\ populate_pc = "groups"
  /\ group < Len(loaded_types)
  /\ IsSupported(ThisGroup.type, SUPPORTS)
  /\ LET d == data_func(ThisGroup.type, ThisGroup.records)
     IN  /\ d.ok
         /\ LET record ==
                  GroupRecord(RelativeName(StripZoneDot(ThisGroup.name)),
                              d.data)
            IN  /\ listing_ids' =
                     RememberGroup(listing_ids, record, ThisGroup.records, 1)
                /\ zone_records' = Append(zone_records, record)
  /\ group' = group + 1
  /\ UNCHANGED <<listing, SUPPORTS, loaded_types, listing_exists, populate_pc,
                 populate_raised>>
  /\ UNCHANGED <<session_vars, lock_vars, codec_vars, name_vars>>

\* Line 123: _data_func raises ValueError for a supported group.
RaiseGroup ==
  /\ populate_pc = "groups"
  /\ group < Len(loaded_types)
  /\ IsSupported(ThisGroup.type, SUPPORTS)
  /\ ~data_func(ThisGroup.type, ThisGroup.records).ok
  /\ group' = group + 1
  /\ populate_pc' = AfterValueError
  /\ populate_raised' = group + 1
  /\ UNCHANGED <<listing, SUPPORTS, loaded_types, listing_exists, zone_records,
                 listing_ids>>
  /\ UNCHANGED <<session_vars, lock_vars, codec_vars, name_vars>>

\* Lines 158-162: a group of another type is logged and left.
SkipGroup ==
  /\ populate_pc = "groups"
  /\ group < Len(loaded_types)
  /\ ~IsSupported(ThisGroup.type, SUPPORTS)
  /\ group' = group + 1
  /\ UNCHANGED <<listing, SUPPORTS, loaded_types, listing_exists, zone_records,
                 listing_ids, populate_pc, populate_raised>>
  /\ UNCHANGED <<session_vars, lock_vars, codec_vars, name_vars>>

\* Line 167: return exists
ReturnExists ==
  /\ populate_pc = "groups"
  /\ group = Len(loaded_types)
  /\ populate_pc' = "returned"
  /\ UNCHANGED <<listing, SUPPORTS, loaded_types, group, listing_exists,
                 zone_records, listing_ids, populate_raised>>
  /\ UNCHANGED <<session_vars, lock_vars, codec_vars, name_vars>>

InitListing ==
  /\ SessionIdle
  /\ LockIdle
  /\ CodecIdle
  /\ NameIdle
  /\ listing \in Listings
  /\ \E supports \in SupportsArguments : SUPPORTS = SupportsOf(supports)
  /\ loaded_types = <<>>
  /\ group = 0
  /\ zone_records = <<>>
  /\ listing_ids = EmptyIds
  /\ listing_exists = FALSE
  /\ populate_pc = "start"
  /\ populate_raised = 0

NextListing ==
  \/ ListRecords
  \/ AddGroup
  \/ RaiseGroup
  \/ SkipGroup
  \/ ReturnExists

SpecListing == InitListing /\ [][NextListing]_vars

\* ------------------------------------------------------------------ claims

\* The flat records of the change's existing and new record.
OldFlat ==
  IF change.existing.present THEN rrset_for_multiple(change.existing) ELSE {}

NewFlat ==
  IF change.new.present THEN rrset_for_multiple(change.new) ELSE {}

ContentsOf(S) == {r.content : r \in S}

\* The differences of the change in the order _apply walks them.
SortedAdditions == Sorted(NewFlat \ OldFlat)

SortedDeletions == Sorted(OldFlat \ NewFlat)

NumPairs == Min(Len(SortedAdditions), Len(SortedDeletions))

\* The calls of one operation, as positions of the log.
CallsOf(op) == {k \in DOMAIN calls : calls[k].op = op}

\* A list without a repeated element.
NoDuplicate(seq) ==
  \A j, k \in DOMAIN seq : j # k => seq[j] # seq[k]

\* C1: convergence of _apply. When the provider held exactly the existing
\* record's flat contents as _apply was entered and every provider call
\* succeeded, the provider's contents after _apply are the new record's
\* encoded contents.
C1_Convergence ==
  (/\ pc = "done"
   /\ ContentsOf(provider_before) = ContentsOf(OldFlat))
  => ContentsOf(provider) = ContentsOf(NewFlat)

\* C2: idempotence. A change whose existing and new record encode to the
\* same set of flat records makes _apply issue no provider call, whatever
\* is remembered.
C2_Idempotent ==
  (pc # "idle" /\ OldFlat = NewFlat) => (calls = <<>> /\ pc = "done")

\* C2's case: such a change was applied in a session that remembers ids.
C2_Witness ==
  /\ pc = "done"
  /\ change.existing.present
  /\ OldFlat = NewFlat
  /\ get_all_ids(remembered_ids, change.existing) # <<>>

\* The one old and the one new flat record of a change that has one each.
TheOld == CHOOSE r \in OldFlat : TRUE

TheNew == CHOOSE r \in NewFlat : TRUE

\* C3's precondition: one old flat record, one different new one, an
\* identifier remembered for the old content under the existing record's
\* key, and has_unique_ids true for that key.
C3_Case ==
  /\ pc # "idle"
  /\ Cardinality(OldFlat) = 1
  /\ Cardinality(NewFlat) = 1
  /\ OldFlat # NewFlat
  /\ get(remembered_ids, change.existing, TheOld.content) # None
  /\ NoDuplicate(get_all_ids(remembered_ids, change.existing))

\* C3: update preference. In that case _apply issues exactly one
\* update_record call, with the remembered identifier and the new record's
\* content, type and name, and no create_record or delete_record call.
C3_UpdatePreferred ==
  C3_Case =>
    \/ pc = "pair" /\ calls = <<>>
    \/ /\ pc \in {"done", "raised"}
       /\ Len(calls) = 1
       /\ calls[1].op = "update_record"
       /\ calls[1].identifier =
            get(remembered_ids, change.existing, TheOld.content)
       /\ calls[1].content = TheNew.content
       /\ calls[1].rtype = TheNew.rtype
       /\ calls[1].name = TheNew.name
       /\ (pc = "done") = calls[1].ok

\* C3's case: the update was issued and succeeded, for a change of content.
C3_Witness ==
  /\ C3_Case
  /\ pc = "done"
  /\ TheOld.content # TheNew.content
  /\ provider # provider_before

\* The identifier remembered for the old flat record of pair j.
PairIdentifier(j) ==
  get(remembered_ids, change.existing, SortedDeletions[j].content)

\* C4: update gate. Every update_record call carries the identifier
\* remembered for the existing record and the old content of its pair, and
\* is issued only when the identifiers remembered for the existing record
\* hold no duplicate; when two values of the record share one identifier no
\* update_record call is issued.
C4_UpdateGate ==
  /\ \A k \in CallsOf("update_record") :
       /\ calls[k].pair \in 1..NumPairs
       /\ calls[k].identifier # None
       /\ calls[k].identifier = PairIdentifier(calls[k].pair)
       /\ NoDuplicate(get_all_ids(remembered_ids, change.existing))
  /\ (\E c, d \in change.existing.values :
        /\ c # d
        /\ get(remembered_ids, change.existing, c) # None
        /\ get(remembered_ids, change.existing, c)
             = get(remembered_ids, change.existing, d))
     => CallsOf("update_record") = {}

\* C4's case: an update went out for the second pair of a change.
C4_Witness ==
  /\ pc = "done"
  /\ \E k \in CallsOf("update_record") : calls[k].pair = 2

\* Pair j is one for which update is not eligible: no identifier, or a
\* duplicate among the remembered identifiers.
NotEligible(j) ==
  \/ PairIdentifier(j) = None
  \/ ~NoDuplicate(get_all_ids(remembered_ids, change.existing))

\* The calls of one operation that belong to pair j.
PairCalls(op, j) == {k \in CallsOf(op) : calls[k].pair = j}

\* C5: create-before-delete. For a pair for which update is not eligible,
\* the delete_record call for the old record comes only after the
\* create_record call for the new record returned success, at most one of
\* each is issued, and once the pair is through exactly one of each.
C5_CreateBeforeDelete ==
  \A j \in 1..NumPairs :
    NotEligible(j) =>
      /\ PairCalls("update_record", j) = {}
      /\ Cardinality(PairCalls("create_record", j)) <= 1
      /\ Cardinality(PairCalls("delete_record", j)) <= 1
      /\ \A k \in PairCalls("create_record", j) :
           calls[k].content = SortedAdditions[j].content
      /\ \A k \in PairCalls("delete_record", j) :
           /\ calls[k].content = SortedDeletions[j].content
           /\ \E m \in PairCalls("create_record", j) : m < k /\ calls[m].ok
      /\ (pc = "done" \/ i >= j) =>
           /\ Cardinality(PairCalls("create_record", j)) = 1
           /\ Cardinality(PairCalls("delete_record", j)) = 1

\* C5's case: a change of two pairs went through as create, delete, create,
\* delete while identifiers were remembered.
C5_Witness ==
  /\ pc = "done"
  /\ NumPairs = 2
  /\ NotEligible(1)
  /\ PairIdentifier(1) # None
  /\ Len(calls) = 4

Max(a, b) == IF a > b THEN a ELSE b

\* The calls that belong to no pair.
BareCalls(op) == PairCalls(op, 0)

\* C6: pairing and cardinality. When _apply is through, the j-th addition
\* was paired with the j-th deletion for min(|additions|, |deletions|) pairs,
\* each pair served by one update or by one create and one delete; then come
\* max(0, |additions| - |deletions|) bare creates and then
\* max(0, |deletions| - |additions|) bare deletes; every addition is the
\* payload of exactly one create or update and every deletion the target
\* of exactly one delete or update.
C6_PairingCardinality ==
  pc = "done" =>
    LET A == SortedAdditions
        D == SortedDeletions
    IN  /\ \A k \in DOMAIN calls : calls[k].ok /\ calls[k].pair \in 0..NumPairs
        /\ \A j \in 1..NumPairs :
             LET ups  == PairCalls("update_record", j)
                 cres == PairCalls("create_record", j)
                 dels == PairCalls("delete_record", j)
             IN  /\ \/ /\ Cardinality(ups) = 1 /\ cres = {} /\ dels = {}
                       /\ \A k \in ups : calls[k].identifier = PairIdentifier(j)
                    \/ /\ ups = {}
                       /\ Cardinality(cres) = 1 /\ Cardinality(dels) = 1
                       /\ \A k \in dels : calls[k].content = D[j].content
                 /\ \A k \in ups \cup cres : calls[k].content = A[j].content
        /\ BareCalls("update_record") = {}
        /\ Cardinality(BareCalls("create_record")) = Max(0, Len(A) - Len(D))
        /\ Cardinality(BareCalls("delete_record")) = Max(0, Len(D) - Len(A))
        /\ \A j \in (NumPairs + 1)..Len(A) :
             Cardinality({k \in BareCalls("create_record") :
                            calls[k].content = A[j].content}) = 1
        /\ \A j \in (NumPairs + 1)..Len(D) :
             Cardinality({k \in BareCalls("delete_record") :
                            calls[k].content = D[j].content}) = 1
        /\ \A k, m \in DOMAIN calls :
             /\ (calls[k].pair > 0 /\ calls[m].pair = 0) => k < m
             /\ (calls[k].pair > 0 /\ calls[k].pair < calls[m].pair) => k < m
             /\ (/\ calls[k].pair = 0 /\ calls[m].pair = 0
                 /\ calls[k].op = "create_record"
                 /\ calls[m].op = "delete_record") => k < m

\* C6's case: three old values, none of them kept, and one new value: one
\* pair and two bare deletes.
C6_Witness ==
  /\ pc = "done"
  /\ Len(SortedDeletions) = 3
  /\ Len(SortedAdditions) = 1
  /\ ContentsOf(OldFlat) \cap ContentsOf(NewFlat) = {}
  /\ Cardinality(BareCalls("delete_record")) = 2

C8_NoPopulate ==
  populated = 0 =>
    /\ CallsOf("update_record") = {}
    /\ \A k \in CallsOf("delete_record") : calls[k].identifier = None
    /\ \A j \in 1..NumPairs :
         (pc = "done" \/ i >= j) =>
           \E k \in PairCalls("create_record", j) :
             \E m \in PairCalls("delete_record", j) :
               /\ k < m
               /\ calls[k].content = SortedAdditions[j].content
               /\ calls[m].content = SortedDeletions[j].content

\* C8's case: without populate a change of one pair and one more old value
\* went through.
C8_Witness ==
  /\ populated = 0
  /\ pc = "done"
  /\ NumPairs >= 1
  /\ BareCalls("delete_record") # {}

\* The listing the session started from.
Listed == IF pc = "idle" THEN provider ELSE provider_before

\* The listed flat records whose value the change removes.
Removed ==
  {e \in Listed :
     ReSubSemicolon(e.content) \in change.existing.values \ change.new.values}

\* The change removes some values of the record and touches nothing else.
RemovesValues ==
  /\ change.existing.present
  /\ change.new.present
  /\ change.new.ttl = change.existing.ttl
  /\ change.new.values \subseteq change.existing.values
  /\ change.new.values # change.existing.values

\* C9: populate then apply. After one populate of a listing with pairwise
\* distinct ids has_unique_ids is true and get returns each listed id for
\* its content; an _apply that removes some of the values issues exactly one
\* delete_record call per removed value, with the id listed for it, and
\* hands the id of a retained value to no call.
C9_PopulateThenApply ==
  (/\ populated = 1
   /\ \A e, f \in Listed : e # f => e.id # f.id)
  => /\ Listed # {} => has_unique_ids(remembered_ids, zone)
     /\ \A e \in Listed : get(remembered_ids, zone, e.content) = e.id
     /\ (pc = "done" /\ RemovesValues) =>
          /\ Len(calls) = Cardinality(Removed)
          /\ CallsOf("delete_record") = DOMAIN calls
          /\ \A e \in Removed :
               Cardinality({k \in DOMAIN calls :
                              calls[k].identifier = e.id}) = 1
          /\ \A e \in Listed \ Removed :
               \A k \in DOMAIN calls : calls[k].identifier # e.id

\* The error each operation raises when the provider returns a falsy result.
ErrorOf(op) ==
  CASE op = "create_record" -> "RecordCreateError"
    [] op = "update_record" -> "RecordUpdateError"
    [] op = "delete_record" -> "RecordDeleteError"

\* What holds of a state for C10: only the last call can have failed, and
\* it has failed exactly when _apply has raised, with the error of the call.
C10_State ==
  /\ \A k \in DOMAIN calls : ~calls[k].ok => k = Len(calls)
  /\ (pc = "raised") = (raised # NoError)
  /\ (pc = "raised") = (calls # <<>> /\ ~calls[Len(calls)].ok)
  /\ pc = "raised" => raised.kind = ErrorOf(calls[Len(calls)].op)

\* What holds of a step for C10: the failing call leaves the provider as
\* the calls before it left it, and once _apply has raised no call is
\* issued and the provider stays as it is.
C10_Step ==
  /\ pc' = "raised" => provider' = provider
  /\ pc = "raised" => (calls' = calls /\ provider' = provider /\ pc' = pc)

\* C10: failure of a provider call. A falsy result of create_record,
\* update_record or delete_record makes _apply raise RecordCreateError,
\* RecordUpdateError or RecordDeleteError; no provider call follows, and
\* what the calls before it did at the provider stays.
C10_FailureAborts == [](C10_State) /\ [][C10_Step]_vars

\* C10's case: a call failed after two calls had succeeded and changed the
\* provider, and values still to be deleted were left alone.
C10_Witness ==
  /\ pc = "raised"
  /\ Len(calls) = 3
  /\ provider # provider_before
  /\ deletions_iter # <<>>

\* The last provider call.
LastCall == calls[Len(calls)]

\* C11: the error raised when update_record or delete_record fails carries
\* the offending flat record and, whenever an identifier was passed to the
\* failed call, that identifier: in the update branch, for the paired
\* delete and for the bare delete.
C11_ErrorCarriesIdentifier ==
  (pc = "raised" /\ LastCall.op \in {"update_record", "delete_record"}) =>
    /\ func_args(raised.record) =
         [content |-> LastCall.content, rtype |-> LastCall.rtype,
          name |-> LastCall.name]
    /\ LastCall.identifier # None =>
         raised.identifier = LastCall.identifier

\* C12: remember is idempotent for a repeated triple. A second populate of
\* the unchanged listing remembers every triple once more; get answers as
\* before for every content and has_unique_ids answers as before.
C12_RememberIdempotent ==
  [][(populated = 1 /\ populated' = 2) =>
       /\ \A c \in RawContents \cup DesiredValues :
            get(remembered_ids', zone', c) = get(remembered_ids, zone, c)
       /\ has_unique_ids(remembered_ids', zone')
            = has_unique_ids(remembered_ids, zone)]_vars

\* The records and contents Identifier Memory may be asked about.
AskedRecords == {zone, change.existing, change.new} \cup NewRecords

AskedContents == RawContents \cup DesiredValues

\* C18: _apply does not change Identifier Memory. Over every step of
\* _apply, whatever the provider answers, get, get_all_ids and
\* has_unique_ids return for every record and content what they returned
\* before the step; only populate adds entries.
C18_ApplyKeepsMemory ==
  [][populated' = populated =>
       \A r \in AskedRecords \cup {change.existing', change.new'} :
         /\ \A c \in AskedContents :
              get(remembered_ids', r, c) = get(remembered_ids, r, c)
         /\ get_all_ids(remembered_ids', r) = get_all_ids(remembered_ids, r)
         /\ has_unique_ids(remembered_ids', r)
              = has_unique_ids(remembered_ids, r)]_vars

\* C18's case: an _apply with an update, and one that failed, ran in a
\* session that remembers identifiers, and the lookups left their keys.
C18_Witness ==
  /\ pc \in {"done", "raised"}
  /\ Len(calls) >= 2
  /\ get_all_ids(remembered_ids, change.existing) # <<>>
  /\ remembered_ids.id_by_record_and_value # <<>>
  /\ \E k \in CallsOf("update_record") : calls[k].ok

\* Whether a sequence holds the identifier.
Holds(seq, id) == \E k \in DOMAIN seq : seq[k] = id

\* C13: every operation of Identifier Memory touches the two maps only while
\* holding the mutex, so a thread whose get returned an identifier finds that
\* identifier in the all-ids list it reads next: no lookup sees the
\* content-to-id entry of a remember whose append has not happened yet.
C13_NoTornRemember ==
  (r_pc \in {"done", "listed"} /\ Truthy(r_id)) => Holds(r_all, r_id)

\* A value as text: each number as str.format prints it, the field names
\* kept.
ValueText(_type, v) ==
  CASE _type = "CAA" ->
         [flags |-> Format(v.flags), tag |-> v.tag, value |-> v.value]
    [] _type = "MX" ->
         [preference |-> Format(v.preference), exchange |-> v.exchange]
    [] _type = "SRV" ->
         [priority |-> Format(v.priority), weight |-> Format(v.weight),
          port |-> Format(v.port), target |-> v.target]
    [] OTHER -> v

\* The values of the decoded data.
DecodedValues ==
  IF encoded_record.type \in {"CNAME", "ALIAS"} THEN {data.data.value}
  ELSE {data.data.values[k] : k \in DOMAIN data.data.values}

\* The values of the record that was encoded.
EncodedValues ==
  IF encoded_record.type \in {"CNAME", "ALIAS"} THEN {encoded_record.value}
  ELSE {ValueText(encoded_record.type, v) : v \in encoded_record.values}

\* C16: codec round trip. For every supported type and every value, decoding
\* the content that encoding produced gives that value again (numbers
\* compared as text): TXT values with an escaped semicolon included, and the
\* fields of CAA, MX and SRV values under the same names.
C16_RoundTrip ==
  codec_pc = "decoded" =>
    /\ data.ok
    /\ data.data.type = encoded_record.type
    /\ data.data.ttl = encoded_record.ttl
    /\ DecodedValues = EncodedValues

\* The zone name with or without its final dot.
ZoneNames == {ZoneName, DropLast(ZoneName, 1)}

\* The listed name is a label sequence, a dot and the zone name.
BelowZone == \E z \in ZoneNames : EndsWith(listed_name, <<".">> \o z)

\* That label sequence.
LabelsBelowZone ==
  LET z == CHOOSE z \in ZoneNames : EndsWith(listed_name, <<".">> \o z)
  IN  DropLast(listed_name, Len(z) + 1)

\* C19: zone-relative name. Once populate has named the record: the zone
\* name itself (with or without final dot) gives the empty name; a label
\* sequence followed by a dot and the zone name gives that label sequence;
\* any other name (relative, or ending in the zone name's characters but
\* not at a label boundary, as fooexample.com) is passed through unchanged.
C19_ZoneRelativeName ==
  name_pc = "named" =>
    IF listed_name \in ZoneNames THEN record_name = <<>>
    ELSE IF BelowZone THEN record_name = LabelsBelowZone
    ELSE record_name = listed_name

\* The name populate gives the record of a group listed under the zone name
\* or under www.example.com.
NameOf(g) == IF g.name = ZoneName THEN <<>> ELSE <<"w", "w", "w">>

\* The content of every flat record of the group splits into as many
\* tokens as its type has fields.
SplitsRight(g) ==
  \A k \in DOMAIN g.records :
    LET t == ShlexSplit(g.records[k].content)
    IN  /\ g.type = "CAA" => t.ok /\ Len(t.tokens) = 3
        /\ g.type = "MX"  => t.ok /\ Len(t.tokens) = 2
        /\ g.type = "SRV" => t.ok /\ Len(t.tokens) = 4

\* The zone holds a record for the group.
ZoneHas(g) ==
  \E k \in DOMAIN zone_records :
    zone_records[k].type = g.type /\ zone_records[k].name = NameOf(g)

\* The keys of Identifier Memory that belong to the group.
KeysOf(g) ==
  {key \in DOMAIN listing_ids.id_by_record_and_value
           \cup DOMAIN listing_ids.all_ids_for_record :
     key[1] = g.type /\ key[3] = NameOf(g)}

\* Identifier Memory holds the identifier of every flat record of the group
\* under the record's content.
Remembered(g) ==
  \E key \in KeysOf(g) :
    \A k \in DOMAIN g.records :
      /\ g.records[k].content
           \in DOMAIN listing_ids.id_by_record_and_value[key]
      /\ \E j \in DOMAIN g.records :
           /\ g.records[j].content = g.records[k].content
           /\ listing_ids.id_by_record_and_value[key][g.records[k].content]
                = g.records[j].id
      /\ Holds(listing_ids.all_ids_for_record[key], g.records[k].id)

\* C14, as claimed: malformed content isolates to its own group. Whenever
\* populate has ended, every supported group whose content splits right is
\* built, registered into the zone and remembered, wherever in the listing
\* a malformed CAA, MX or SRV group stands.
C14_MalformedIsolated ==
  populate_pc \in {"returned", "raised"} =>
    \A j \in DOMAIN loaded_types :
      (loaded_types[j].type \in SUPPORTS /\ SplitsRight(loaded_types[j])) =>
        ZoneHas(loaded_types[j]) /\ Remembered(loaded_types[j])

\* C14, amended: the ValueError of a malformed supported CAA, MX or SRV
\* group propagates out of populate at that group. populate returns only
\* when no supported group is malformed; when it raised, the supported
\* groups before the malformed one are registered and remembered, the
\* malformed group and every group after it are neither.
C14_MalformedAborts ==
  /\ populate_pc = "returned" =>
       \A j \in DOMAIN loaded_types :
         loaded_types[j].type \in SUPPORTS => SplitsRight(loaded_types[j])
  /\ populate_pc = "raised" =>
       /\ populate_raised \in DOMAIN loaded_types
       /\ loaded_types[populate_raised].type \in SUPPORTS
       /\ ~SplitsRight(loaded_types[populate_raised])
       /\ \A j \in DOMAIN loaded_types :
            IF j < populate_raised
            THEN loaded_types[j].type \in SUPPORTS =>
                   ZoneHas(loaded_types[j]) /\ Remembered(loaded_types[j])
            ELSE ~ZoneHas(loaded_types[j]) /\ KeysOf(loaded_types[j]) = {}

\* C14's case: populate raised at the second of three groups; the first is
\* registered, the third is supported and well-formed and is lost.
C14_Witness ==
  /\ populate_pc = "raised"
  /\ populate_raised = 2
  /\ Len(loaded_types) = 3
  /\ Len(zone_records) = 1
  /\ loaded_types[3].type \in SUPPORTS
  /\ SplitsRight(loaded_types[3])
  /\ ~ZoneHas(loaded_types[3])

\* C15 in every state: populate raises at no unsupported group, the zone
\* and Identifier Memory hold nothing of an unsupported type, and when
\* populate returns every supported group is registered and remembered and
\* exists is true exactly for a non-empty listing.
C15_State ==
  /\ populate_raised # 0 => loaded_types[populate_raised].type \in SUPPORTS
  /\ \A k \in DOMAIN zone_records : zone_records[k].type \in SUPPORTS
  /\ \A key \in DOMAIN listing_ids.id_by_record_and_value
                  \cup DOMAIN listing_ids.all_ids_for_record :
       key[1] \in SUPPORTS
  /\ populate_pc = "returned" =>
       /\ listing_exists = (listing # <<>>)
       /\ \A j \in DOMAIN loaded_types :
            loaded_types[j].type \in SUPPORTS =>
              ZoneHas(loaded_types[j]) /\ Remembered(loaded_types[j])

\* C15 in every step: from an unsupported group populate goes on to the
\* next group, zone and Identifier Memory as they were.
C15_Step ==
  (populate_pc = "groups" /\ group < Len(loaded_types)
     /\ loaded_types[group + 1].type \notin SUPPORTS) =>
    /\ populate_pc' = "groups"
    /\ group' = group + 1
    /\ zone_records' = zone_records
    /\ listing_ids' = listing_ids

\* C15: unsupported types are skipped without error.
C15_UnsupportedSkipped == [](C15_State) /\ [][C15_Step]_vars

\* C15's case: populate returned over a SOA group, a group of a type the
\* configuration leaves out, and a supported group that is registered.
C15_Witness ==
  /\ populate_pc = "returned"
  /\ Len(loaded_types) = 3
  /\ loaded_types[1].type \notin IMPLEMENTED
  /\ loaded_types[2].type \in IMPLEMENTED \ SUPPORTS
  /\ loaded_types[3].type \in SUPPORTS
  /\ Len(zone_records) = 1
  /\ listing_exists

\* The flat records populate holds after the first loop.
LoadedRecords ==
  UNION {{loaded_types[j].records[k] : k \in DOMAIN loaded_types[j].records}
           : j \in DOMAIN loaded_types}

\* The record the k-th listed one became.
Loaded(k) == CHOOSE r \in LoadedRecords : r.id = k

\* The last shell token of a content.
LastToken(content) ==
  ShlexSplit(content).tokens[Len(ShlexSplit(content).tokens)]

\* What harmonization is to make of a content.
Harmonized(_type, content) ==
  IF _type \in {"CNAME", "MX", "NS"} /\ content[Len(content)] # "."
  THEN IF Contains(LastToken(content), ".") THEN content \o <<".">>
       ELSE content \o <<".">> \o ZoneName
  ELSE content

\* C17: harmonization in populate. After the first loop every listed
\* record holds the harmonized content: for CNAME, MX and NS without final
\* dot the content and a dot when the last shell token has a dot, and the
\* content, a dot and the zone name otherwise; unchanged for a final dot
\* and for every other type. Harmonizing it again changes nothing, and the
\* contents Identifier Memory holds for a registered group are the
\* harmonized ones.
C17_Harmonization ==
  populate_pc # "start" =>
    /\ \A k \in DOMAIN listing :
         /\ Loaded(k).content = Harmonized(listing[k].type, listing[k].content)
         /\ Harmonized(listing[k].type, Loaded(k).content) = Loaded(k).content
    /\ \A j \in DOMAIN loaded_types :
         ZoneHas(loaded_types[j]) =>
           /\ Remembered(loaded_types[j])
           /\ \A key \in KeysOf(loaded_types[j]) :
                DOMAIN listing_ids.id_by_record_and_value[key] =
                  {loaded_types[j].records[k].content
                     : k \in DOMAIN loaded_types[j].records}

\* C17's case: populate returned having registered a CNAME listed as f,
\* remembered under f.example.com., and an NS listed as n.s, remembered
\* under n.s.
C17_Witness ==
  /\ populate_pc = "returned"
  /\ \E j \in DOMAIN loaded_types :
       /\ loaded_types[j].type = "CNAME"
       /\ loaded_types[j].records[1].content = <<"f", ".">> \o ZoneName
       /\ ZoneHas(loaded_types[j])
       /\ Remembered(loaded_types[j])
  /\ \E k \in DOMAIN listing :
       /\ listing[k].type = "NS"
       /\ listing[k].content = <<"n", ".", "s">>
       /\ Loaded(k).content = <<"n", ".", "s", ".">>
       /\ \E j \in DOMAIN loaded_types :
            loaded_types[j].type = "NS" /\ ZoneHas(loaded_types[j])

====
